---- MODULE Spec2Model ----
(***************************************************************************)
(* Model of jprevo/choucroute-cosmique.                                    *)
(*                                                                         *)
(* Part 1: parallel_processor.process_images_parallel.  One main thread    *)
(* submits one task per element of image_paths to a ThreadPoolExecutor,    *)
(* then drains the futures with as_completed, building one ImageTagResult  *)
(* per future and calling the progress callback.  The worker threads of    *)
(* the pool run processing_function.  The library calls made at            *)
(* parallel_processor.py:40 (ThreadPoolExecutor, and its __exit__),        *)
(* :43 (submit), :48 (as_completed) and :53 (Future.result) are modelled   *)
(* by what CPython's concurrent.futures does.                              *)
(***************************************************************************)
EXTENDS Integers, Sequences, FiniteSets, TLC

(***************************************************************************)
(* Bounds of the model.                                                    *)
(***************************************************************************)
MaxPaths == 2        \* longest image_paths list
MaxWorkers == 2      \* largest max_workers argument
MaxHang == 1         \* invocations of processing_function that never end

Paths == {"a.jpg", "b.jpg"}

\* All sequences over S of length 0..n.
RECURSIVE SeqsUpTo(_, _)
SeqsUpTo(S, n) ==
    IF n = 0 THEN {<<>>}
    ELSE LET shorter == SeqsUpTo(S, n - 1)
         IN  shorter \cup {Append(s, x) : s \in {t \in shorter : Len(t) = n - 1}, x \in S}

PathLists == SeqsUpTo(Paths, MaxPaths)

(***************************************************************************)
(* What one invocation of processing_function can do: return a list of     *)
(* tags, or raise.  An exception is a class and its args.  ValueError      *)
(* derives from Exception; SystemExit derives from BaseException only.     *)
(***************************************************************************)
TagLists == {<<>>, <<"A", "B">>}
ExceptionClasses == {"ValueError"}
BaseOnlyClasses == {"SystemExit"}
ExcArgs == {<<>>, <<"boom">>}

Returned(tags) == [kind |-> "return", tags |-> tags, cls |-> "", args |-> <<>>]
Raised(cls, args) == [kind |-> "raise", tags |-> <<>>, cls |-> cls, args |-> args]
NoRes == [kind |-> "none", tags |-> <<>>, cls |-> "", args |-> <<>>]

Behaviours ==
    {Returned(t) : t \in TagLists}
    \cup {Raised(c, a) : c \in ExceptionClasses, a \in ExcArgs}
    \cup {Raised(c, <<>>) : c \in BaseOnlyClasses}

\* str(e) of a Python exception: "" without args, the argument with one.
Str(e) == IF Len(e.args) = 0 THEN "" ELSE e.args[1]

\* isinstance(e, Exception): what `except Exception` catches.
IsException(e) == e.cls \in ExceptionClasses

VARIABLES
    image_paths,        \* argument: the list of paths
    max_workers,        \* argument
    progress_callback,  \* argument: "None", "callable", or "raising" (a
                        \* callable that raises at some invocation)
    pc,                 \* position of the calling thread
    results,            \* local: list of ImageTagResult
    total,              \* local
    completed,          \* local
    future_to_image,    \* local dict; futures are numbered by submission
    fut,                \* state and result of each future
    work_queue,         \* executor._work_queue
    num_threads,        \* len(executor._threads)
    idle_semaphore,     \* executor._idle_semaphore
    releasing,          \* workers between work_item.run() and the release
    invoked,            \* number of calls of processing_function per task
    installed,          \* as_completed has installed its waiter
    finished_set,       \* as_completed: futures already done at its start
    waiter,             \* as_completed: waiter.finished_futures, by completion
    yielded,            \* futures as_completed has yielded
    result_future,      \* history: the future each element of results is for
    progress_calls,     \* history: the calls the progress callback received
    exc,                \* the exception propagating out of the call, and
                        \* its origin: "executor", "task" or "callback"
    \* the sequential code (llm_client, image_scanner, file_operations, run)
    call,               \* the last call of a pure function: name, argument, result
    fs,                 \* the file system: the node at each existing path
    ret,                \* the last call of a file operation and its outcome
    main                \* run.main: its position and locals

parallel == <<image_paths, max_workers, progress_callback, pc, results, total,
              completed, future_to_image, fut, work_queue, num_threads,
              idle_semaphore, releasing, invoked, installed, finished_set,
              waiter, yielded, result_future, progress_calls, exc>>
sequential == <<call, fs, ret, main>>
vars == <<parallel, sequential>>

args == <<image_paths, max_workers, progress_callback>>
pool == <<work_queue, num_threads, idle_semaphore, releasing>>
collector == <<installed, finished_set, waiter, yielded>>
locals == <<results, total, completed, result_future, progress_calls>>

K == Len(image_paths)
Tasks == 1..K
NoExc == [cls |-> "", args |-> <<>>, src |-> "none"]

Busy == {i \in Tasks : fut[i].state \in {"running", "hung"}}
Done == {i \in Tasks : fut[i].state = "finished"}
FreeThreads == num_threads - Cardinality(Busy) - releasing

\* While process_images_parallel is studied the sequential code is at rest.
NoCall == [fn |-> "none", arg |-> <<>>, out |-> <<>>]
SequentialIdle ==
    /\ call = NoCall
    /\ fs = <<>>
    /\ ret = <<>>
    /\ main = <<>>

Init ==
    /\ image_paths \in PathLists
    /\ max_workers \in -1..MaxWorkers
    /\ progress_callback \in {"None", "callable", "raising"}
    /\ pc = "call"
    /\ results = <<>>
    /\ total = 0
    /\ completed = 0
    /\ future_to_image = <<>>
    /\ fut = [i \in 1..Len(image_paths) |-> [state |-> "none", res |-> NoRes]]
    /\ work_queue = <<>>
    /\ num_threads = 0
    /\ idle_semaphore = 0
    /\ releasing = 0
    /\ invoked = [i \in 1..Len(image_paths) |-> 0]
    /\ installed = FALSE
    /\ finished_set = {}
    /\ waiter = <<>>
    /\ yielded = {}
    /\ result_future = <<>>
    /\ progress_calls = <<>>
    /\ exc = NoExc
    /\ SequentialIdle

(***************************************************************************)
(* Lines 36-40: the locals, then ThreadPoolExecutor(max_workers), which    *)
(* raises ValueError("max_workers must be greater than 0") when            *)
(* max_workers <= 0.                                                       *)
(***************************************************************************)
\* Mutant: only a negative max_workers is refused.
Enter_NegativeOnly ==
    /\ pc = "call"
    /\ results' = <<>>
    /\ total' = Len(image_paths)
    /\ completed' = 0
    /\ IF max_workers < 0
       THEN /\ pc' = "raised"
            /\ exc' = [cls |-> "ValueError",
                       args |-> <<"max_workers must be greater than 0">>,
                       src |-> "executor"]
       ELSE /\ pc' = "submit"
            /\ exc' = exc
    /\ UNCHANGED <<sequential, args, future_to_image, fut, pool, invoked, collector,
                   result_future, progress_calls>>

Enter ==
    /\ pc = "call"
    /\ results' = <<>>
    /\ total' = Len(image_paths)
    /\ completed' = 0
    /\ IF max_workers <= 0
       THEN /\ pc' = "raised"
            /\ exc' = [cls |-> "ValueError",
                       args |-> <<"max_workers must be greater than 0">>,
                       src |-> "executor"]
       ELSE /\ pc' = "submit"
            /\ exc' = exc
    /\ UNCHANGED <<sequential, args, future_to_image, fut, pool, invoked, collector,
                   result_future, progress_calls>>

(***************************************************************************)
(* Line 43, executor.submit: a new future, its work item at the back of    *)
(* the queue, then _adjust_thread_count: no new thread if the idle         *)
(* semaphore can be acquired, else one more thread while fewer than        *)
(* max_workers exist.                                                      *)
(***************************************************************************)
\* Mutant: the pool grows without comparing with max_workers.
SpawnsThread_Unbounded(sem, n, maxw) == sem = 0

SpawnsThread(sem, n, maxw) == sem = 0 /\ n < maxw

Submit ==
    /\ pc = "submit"
    /\ Len(future_to_image) < K
    /\ LET i == Len(future_to_image) + 1
       IN  /\ future_to_image' = Append(future_to_image, image_paths[i])
           /\ fut' = [fut EXCEPT ![i].state = "pending"]
           /\ work_queue' = Append(work_queue, i)
    /\ idle_semaphore' = IF idle_semaphore > 0 THEN idle_semaphore - 1
                         ELSE idle_semaphore
    /\ num_threads' = IF SpawnsThread(idle_semaphore, num_threads, max_workers)
                      THEN num_threads + 1 ELSE num_threads
    /\ UNCHANGED <<sequential, args, pc, locals, releasing, invoked, collector, exc>>

(***************************************************************************)
(* Worker thread (_worker): take the next work item, run it, release the   *)
(* idle semaphore, loop.  _WorkItem.run stores what the call returned or   *)
(* any BaseException it raised in the future.                              *)
(***************************************************************************)
WorkerGet ==
    /\ FreeThreads > 0
    /\ work_queue # <<>>
    /\ LET i == Head(work_queue)
       IN  /\ fut' = [fut EXCEPT ![i].state = "running"]
           /\ invoked' = [invoked EXCEPT ![i] = @ + 1]
    /\ work_queue' = Tail(work_queue)
    /\ UNCHANGED <<sequential, args, pc, locals, future_to_image, num_threads,
                   idle_semaphore, releasing, collector, exc>>

\* Mutant: a call that raised an Exception is queued again.
WorkerRun_Retry(i) ==
    /\ fut[i].state = "running"
    /\ \E b \in Behaviours :
          IF b.kind = "raise" /\ IsException(b)
          THEN /\ fut' = [fut EXCEPT ![i].state = "pending"]
               /\ work_queue' = Append(work_queue, i)
               /\ waiter' = waiter
          ELSE /\ fut' = [fut EXCEPT ![i] = [state |-> "finished", res |-> b]]
               /\ work_queue' = work_queue
               /\ waiter' = IF installed THEN Append(waiter, i) ELSE waiter
    /\ releasing' = releasing + 1
    /\ UNCHANGED <<sequential, args, pc, locals, future_to_image, num_threads,
                   idle_semaphore, invoked, installed, finished_set, yielded, exc>>

\* processing_function(img_path) returns or raises; the future is done and
\* as_completed's waiter, once installed, is told.
WorkerRun(i) ==
    /\ fut[i].state = "running"
    /\ \E b \in Behaviours : fut' = [fut EXCEPT ![i] = [state |-> "finished", res |-> b]]
    /\ waiter' = IF installed THEN Append(waiter, i) ELSE waiter
    /\ releasing' = releasing + 1
    /\ UNCHANGED <<sequential, args, pc, locals, future_to_image, work_queue, num_threads,
                   idle_semaphore, invoked, installed, finished_set, yielded, exc>>

\* processing_function(img_path) never terminates.
WorkerHang(i) ==
    /\ fut[i].state = "running"
    /\ Cardinality({j \in Tasks : fut[j].state = "hung"}) < MaxHang
    /\ fut' = [fut EXCEPT ![i].state = "hung"]
    /\ UNCHANGED <<sequential, args, pc, locals, future_to_image, pool, invoked, collector, exc>>

WorkerRelease ==
    /\ releasing > 0
    /\ releasing' = releasing - 1
    /\ idle_semaphore' = idle_semaphore + 1
    /\ UNCHANGED <<sequential, args, pc, locals, future_to_image, fut, work_queue,
                   num_threads, invoked, collector, exc>>

(***************************************************************************)
(* Line 48, first step of as_completed(future_to_image): under the         *)
(* futures' locks, the futures already done form the set yielded first     *)
(* (in no particular order) and a waiter is installed on the others.       *)
(***************************************************************************)
AsCompleted ==
    /\ pc = "submit"
    /\ Len(future_to_image) = K
    /\ finished_set' = Done
    /\ installed' = TRUE
    /\ pc' = "collect"
    /\ UNCHANGED <<sequential, args, locals, future_to_image, fut, pool, invoked, waiter,
                   yielded, exc>>

(***************************************************************************)
(* Lines 49-69: one iteration of the collecting loop for the future f.     *)
(***************************************************************************)
ImageTagResult(image_path, tags, success, error) ==
    [image_path |-> image_path, tags |-> tags, success |-> success, error |-> error]

RECURSIVE Reverse(_)
Reverse(q) == IF q = <<>> THEN <<>> ELSE Append(Reverse(Tail(q)), Head(q))

\* Mutant: the except branch also builds its result with success=True.
ResultOf_AlwaysSuccess(image_path, res) ==
    IF res.kind = "return"
    THEN ImageTagResult(image_path, res.tags, TRUE, "")
    ELSE ImageTagResult(image_path, <<>>, TRUE, Str(res))

\* Mutant: the returned tags are stored in another order.
ResultOf_ReversedTags(image_path, res) ==
    IF res.kind = "return"
    THEN ImageTagResult(image_path, Reverse(res.tags), TRUE, "")
    ELSE ImageTagResult(image_path, <<>>, FALSE, Str(res))

\* Lines 52-65: the result appended for a future whose call returned or
\* raised an error caught by `except Exception`.
ResultOf(image_path, res) ==
    IF res.kind = "return"
    THEN ImageTagResult(image_path, res.tags, TRUE, "")
    ELSE ImageTagResult(image_path, <<>>, FALSE, Str(res))

\* Line 59: future.result() re-raises the stored exception; `except
\* Exception` lets an exception that is no Exception through.
Propagates(res) == res.kind = "raise" /\ ~IsException(res)

CallbackError == [cls |-> "RuntimeError", args |-> <<"callback">>, src |-> "callback"]

\* Mutant: the path of the last submitted future, whatever the future.
ImagePathOf_LastSubmitted(f) == future_to_image[Len(future_to_image)]

\* Mutant: paths are paired with the futures in the order of completion.
ImagePathOf_ByPosition(f) == image_paths[Len(results) + 1]

\* Line 49: the path the future was submitted for.
ImagePathOf(f) == future_to_image[f]

\* Mutant: the counter is not incremented before the callback.
NextCompleted_Stuck(c) == c

\* Line 50.
NextCompleted(c) == c + 1

\* Mutant: the progress report is also made for a future whose exception
\* leaves the loop, before any outcome is recorded for it.
LoopBody_ReportsUnrecorded(f) ==
    /\ completed' = NextCompleted(completed)
    /\ yielded' = yielded \cup {f}
    /\ IF Propagates(fut[f].res)
       THEN /\ pc' = "unwind"
            /\ exc' = [cls |-> fut[f].res.cls, args |-> fut[f].res.args,
                       src |-> "task"]
            /\ progress_calls' = IF progress_callback = "None" THEN progress_calls
                                 ELSE Append(progress_calls, <<completed', total>>)
            /\ UNCHANGED <<results, result_future>>
       ELSE /\ results' = Append(results, ResultOf(ImagePathOf(f), fut[f].res))
            /\ result_future' = Append(result_future, f)
            /\ IF progress_callback = "None"
               THEN UNCHANGED <<pc, exc, progress_calls>>
               ELSE /\ progress_calls' = Append(progress_calls, <<completed', total>>)
                    /\ \/ UNCHANGED <<pc, exc>>
                       \/ /\ progress_callback = "raising"
                          /\ pc' = "unwind"
                          /\ exc' = CallbackError
    /\ UNCHANGED <<sequential, args, total, future_to_image, fut, pool, invoked, installed>>

LoopBody(f) ==
    /\ completed' = NextCompleted(completed)
    /\ yielded' = yielded \cup {f}
    /\ IF Propagates(fut[f].res)
       THEN /\ pc' = "unwind"
            /\ exc' = [cls |-> fut[f].res.cls, args |-> fut[f].res.args,
                       src |-> "task"]
            /\ UNCHANGED <<results, result_future, progress_calls>>
       ELSE /\ results' = Append(results, ResultOf(ImagePathOf(f), fut[f].res))
            /\ result_future' = Append(result_future, f)
            /\ IF progress_callback = "None"
               THEN UNCHANGED <<pc, exc, progress_calls>>
               ELSE /\ progress_calls' = Append(progress_calls, <<completed', total>>)
                    /\ \/ UNCHANGED <<pc, exc>>
                       \/ /\ progress_callback = "raising"
                          /\ pc' = "unwind"
                          /\ exc' = CallbackError
    /\ UNCHANGED <<sequential, args, total, future_to_image, fut, pool, invoked, installed>>

\* as_completed yields a future of its initial set.
CollectFinished ==
    /\ pc = "collect"
    /\ \E f \in finished_set :
          /\ finished_set' = finished_set \ {f}
          /\ waiter' = waiter
          /\ LoopBody(f)

\* Mutant: the futures the waiter was told of are yielded newest first.
CollectWaited_NewestFirst ==
    /\ pc = "collect"
    /\ finished_set = {}
    /\ waiter # <<>>
    /\ finished_set' = finished_set
    /\ waiter' = SubSeq(waiter, 1, Len(waiter) - 1)
    /\ LoopBody(waiter[Len(waiter)])

\* as_completed yields the futures its waiter was told of, oldest first.
CollectWaited ==
    /\ pc = "collect"
    /\ finished_set = {}
    /\ waiter # <<>>
    /\ finished_set' = finished_set
    /\ waiter' = Tail(waiter)
    /\ LoopBody(Head(waiter))

\* Mutant: a last progress report once the loop is over.
LoopEnd_FinalReport ==
    /\ pc = "collect"
    /\ yielded = Tasks
    /\ pc' = "exit"
    /\ progress_calls' = IF progress_callback = "None" THEN progress_calls
                         ELSE Append(progress_calls, <<total, total>>)
    /\ UNCHANGED <<sequential, args, results, total, completed, result_future,
                   future_to_image, fut, pool, invoked, collector, exc>>

\* Mutant: the loop ends as soon as no finished future is at hand.
LoopEnd_NoWait ==
    /\ pc = "collect"
    /\ finished_set = {}
    /\ waiter = <<>>
    /\ pc' = "exit"
    /\ UNCHANGED <<sequential, args, locals, future_to_image, fut, pool, invoked, collector, exc>>

\* as_completed is exhausted: the loop ends and the with block is left.
LoopEnd ==
    /\ pc = "collect"
    /\ yielded = Tasks
    /\ pc' = "exit"
    /\ UNCHANGED <<sequential, args, locals, future_to_image, fut, pool, invoked, collector, exc>>

(***************************************************************************)
(* Line 40, ThreadPoolExecutor.__exit__: shutdown(wait=True) joins the     *)
(* worker threads, which end once the queue is drained; then line 71       *)
(* returns results, or the propagating exception leaves the call.          *)
(***************************************************************************)
\* Mutant: the tasks still queued are not waited for.
Joined_IgnoresQueue == Busy = {} /\ releasing = 0

Joined == work_queue = <<>> /\ Busy = {} /\ releasing = 0

\* Mutant: the list is put in the reverse order before it is returned.
Shutdown_Reorders ==
    /\ pc \in {"exit", "unwind"}
    /\ Joined
    /\ pc' = IF pc = "exit" THEN "returned" ELSE "raised"
    /\ results' = Reverse(results)
    /\ UNCHANGED <<sequential, args, total, completed, result_future, progress_calls,
                   future_to_image, fut, pool, invoked, collector, exc>>

Shutdown ==
    /\ pc \in {"exit", "unwind"}
    /\ Joined
    /\ pc' = IF pc = "exit" THEN "returned" ELSE "raised"
    /\ UNCHANGED <<sequential, args, locals, future_to_image, fut, pool, invoked, collector, exc>>

Next ==
    \/ Enter
    \/ Submit
    \/ WorkerGet
    \/ \E i \in Tasks : WorkerRun(i)
    \/ \E i \in Tasks : WorkerHang(i)
    \/ WorkerRelease
    \/ AsCompleted
    \/ CollectFinished
    \/ CollectWaited
    \/ LoopEnd
    \/ Shutdown

Spec == Init /\ [][Next]_vars

(***************************************************************************)
(* Properties of process_images_parallel.                                  *)
(***************************************************************************)
Occurrences(q, x) == Cardinality({i \in DOMAIN q : q[i] = x})
ResultPaths == [n \in DOMAIN results |-> results[n].image_path]
ReturnedNormally == pc = "returned"
FailedTasks == {i \in Tasks : fut[i].res.kind = "raise"}

\* C1: when the call returns, results has one outcome per input element and
\* the multiset of its image_path values is the multiset of image_paths; each
\* future has exactly one outcome.
C1_AllOutcomesReturned ==
    ReturnedNormally =>
        /\ Len(results) = Len(image_paths)
        /\ \A p \in Paths : Occurrences(ResultPaths, p) = Occurrences(image_paths, p)
        /\ \A i \in Tasks : Occurrences(result_future, i) = 1

C1_Witness ==
    /\ ReturnedNormally
    /\ max_workers = 2
    /\ Len(image_paths) = 2
    /\ image_paths[1] = image_paths[2]
    /\ Len(results) = 2

\* C2 (as claimed): no exception raised by processing_function ever
\* propagates out of the call.
C2_NeverRaisesFromTask ==
    pc \in {"unwind", "raised"} => exc.src # "task"

\* C3 (as claimed): every returned outcome with success = FALSE has no tags
\* and a non-empty error string.
C3_FailedHasError ==
    ReturnedNormally =>
        \A n \in DOMAIN results :
            ~results[n].success => results[n].tags = <<>> /\ results[n].error # ""

\* C4: in the returned list, an outcome is a success exactly when the call
\* of processing_function for its future returned without raising.
C4_SuccessIffReturned ==
    ReturnedNormally =>
        /\ Len(result_future) = Len(results)
        /\ \A n \in DOMAIN results :
              results[n].success <=> fut[result_future[n]].res.kind = "return"

C4_Witness ==
    /\ ReturnedNormally
    /\ \E n, m \in DOMAIN results : results[n].success /\ ~results[m].success

\* C5: a returned outcome with success = TRUE has error = "" and carries the
\* very sequence of tags the call returned, an empty one included, for the
\* path the call was made for.
C5_SuccessKeepsTags ==
    ReturnedNormally =>
        \A n \in DOMAIN results :
            results[n].success =>
                /\ results[n].error = ""
                /\ results[n].tags = fut[result_future[n]].res.tags
                /\ results[n].image_path = image_paths[result_future[n]]

C5_Witness ==
    /\ ReturnedNormally
    /\ \E n, m \in DOMAIN results :
          /\ results[n].success /\ results[n].tags = <<>>
          /\ results[m].success /\ results[m].tags = <<"A", "B">>

\* C6 (as claimed): once the call is over (and neither the executor nor the
\* callback raised), every task whose call returned has been executed and
\* has its own outcome recorded, whatever happened to the other tasks.
C6_FailureIsolated ==
    (pc \in {"returned", "raised"} /\ exc.src \in {"none", "task"}) =>
        \A j \in Tasks :
            fut[j].res.kind = "return" =>
                /\ invoked[j] = 1
                /\ \E n \in DOMAIN results :
                      /\ result_future[n] = j
                      /\ results[n] = ImageTagResult(image_paths[j], fut[j].res.tags, TRUE, "")

\* C7: the i-th call of the progress callback receives (i, K), and a call
\* that returns has made exactly K of them.
C7_ProgressCounts ==
    /\ \A i \in DOMAIN progress_calls : progress_calls[i] = <<i, Len(image_paths)>>
    /\ (ReturnedNormally /\ progress_callback # "None") =>
           Len(progress_calls) = Len(image_paths)

C7_Witness ==
    /\ ReturnedNormally
    /\ progress_callback = "callable"
    /\ max_workers = 2
    /\ progress_calls = <<<<1, 2>>, <<2, 2>>>>

\* C8: never more than max_workers calls of processing_function in progress.
C8_AtMostMaxWorkers ==
    max_workers >= 1 => Cardinality(Busy) <= max_workers

C8_Witness ==
    /\ max_workers = 1
    /\ Cardinality(Busy) = 1
    /\ work_queue # <<>>

\* C9: processing_function is never called twice for the same element, and
\* when the call is over it has been called once for every element, equal
\* paths included, whether the calls returned or raised.
C9_InvokedOncePerElement ==
    /\ \A i \in Tasks : invoked[i] <= 1
    /\ (pc \in {"returned", "raised"} /\ max_workers >= 1) =>
           \A i \in Tasks : invoked[i] = 1

C9_Witness ==
    /\ ReturnedNormally
    /\ Len(image_paths) = 2
    /\ image_paths[1] = image_paths[2]
    /\ fut[1].res.kind = "raise"
    /\ fut[2].res.kind = "return"
    /\ invoked = <<1, 1>>

\* C10: with no path and max_workers >= 1 the call does not raise, starts no
\* work, calls no callback and returns the empty list.
C10_EmptyInput ==
    (Len(image_paths) = 0 /\ max_workers >= 1) =>
        /\ pc \notin {"unwind", "raised"}
        /\ num_threads = 0
        /\ work_queue = <<>>
        /\ progress_calls = <<>>
        /\ results = <<>>

C10_Witness ==
    /\ Len(image_paths) = 0
    /\ progress_callback = "callable"
    /\ ReturnedNormally
    /\ results = <<>>

\* C11: in the state where the call returns, no call of processing_function
\* is queued or in progress, every future is done and results holds the K
\* outcomes.
C11_ReturnsAfterAllSettled ==
    ReturnedNormally =>
        /\ work_queue = <<>>
        /\ Busy = {}
        /\ \A i \in Tasks : fut[i].state = "finished"
        /\ Len(results) = Len(image_paths)

C11_Witness ==
    /\ ReturnedNormally
    /\ max_workers = 1
    /\ Len(image_paths) = 2
    /\ Len(results) = 2
    /\ \A i \in Tasks : fut[i].state = "finished"

(***************************************************************************)
(* Scheduling: the calling thread and every worker thread keep being       *)
(* scheduled, so a step that stays possible is eventually taken.  A call   *)
(* of processing_function in progress eventually returns or raises unless  *)
(* it is one that never terminates (WorkerHang, which has no fairness).    *)
(***************************************************************************)
Fairness ==
    /\ WF_vars(Enter)
    /\ WF_vars(Submit)
    /\ WF_vars(WorkerGet)
    /\ WF_vars(\E i \in Tasks : WorkerRun(i))
    /\ WF_vars(WorkerRelease)
    /\ WF_vars(AsCompleted)
    /\ WF_vars(CollectFinished)
    /\ WF_vars(CollectWaited)
    /\ WF_vars(LoopEnd)
    /\ WF_vars(Shutdown)

FairSpec == Init /\ [][Next]_vars /\ Fairness

NoneHangs == \A i \in Tasks : fut[i].state # "hung"
CallbackReturns == exc.src # "callback"
Recorded == {result_future[n] : n \in DOMAIN result_future}

\* C12 (as claimed): with max_workers >= 1, if no call of processing_function
\* hangs and the callback never raises, then eventually every task has its
\* outcome recorded and the call has returned.
C12_EventuallyReturns ==
    (max_workers >= 1 /\ [](NoneHangs /\ CallbackReturns)) =>
        <>(ReturnedNormally /\ Recorded = Tasks)

Hung == {i \in Tasks : fut[i].state = "hung"}

\* C13 (as claimed): with max_workers >= 2, a callback that returns and
\* exactly one call that never terminates, eventually every other task has
\* been dispatched and has its outcome recorded and reported, while the call
\* is still collecting: only the hanging task's outcome is missing.
C13_OthersCollectedDespiteHang ==
    (max_workers >= 2 /\ []CallbackReturns /\ [](Cardinality(Hung) <= 1) /\ <>(Hung # {})) =>
        <>[](/\ pc = "collect"
             /\ \A j \in Tasks \ Hung : invoked[j] = 1 /\ j \in Recorded
             /\ Recorded = Tasks \ Hung
             /\ progress_callback # "None" => Len(progress_calls) = Len(image_paths) - 1)

\* C14: with max_workers <= 0 the call only ever raises, from the executor's
\* constructor: nothing is submitted or run, the callback is never called
\* and the call never returns a list, whatever image_paths is.
C14_InvalidMaxWorkersRaisesFirst ==
    max_workers <= 0 =>
        /\ pc \in {"call", "raised"}
        /\ (pc = "raised" => exc.src = "executor")
        /\ \A i \in Tasks : invoked[i] = 0 /\ fut[i].state = "none"
        /\ num_threads = 0
        /\ work_queue = <<>>
        /\ future_to_image = <<>>
        /\ progress_calls = <<>>

C14_Witness ==
    /\ max_workers = 0
    /\ Len(image_paths) = 2
    /\ progress_callback = "callable"
    /\ pc = "raised"
    /\ exc.cls = "ValueError"

\* The processing function as a map from paths, when its calls are
\* determined by the path alone.
FnOf(p) == fut[CHOOSE i \in Tasks : image_paths[i] = p].res
PathDetermined == \A i \in Tasks : fut[i].res = FnOf(image_paths[i])
ExpectedOutcomes == [i \in Tasks |-> ResultOf(image_paths[i], FnOf(image_paths[i]))]
Range(q) == {q[i] : i \in DOMAIN q}

\* C15: for a processing function determined by the path, the multiset of
\* outcomes a call returns is the one fixed by image_paths and the function,
\* whatever max_workers and the order of completion: any two runs on the same
\* inputs return the same multiset.
C15_SameOutcomesForAnyWorkerCount ==
    (ReturnedNormally /\ PathDetermined) =>
        \A o \in Range(results) \cup Range(ExpectedOutcomes) :
            Occurrences(results, o) = Occurrences(ExpectedOutcomes, o)

C15_Witness ==
    /\ ReturnedNormally
    /\ PathDetermined
    /\ max_workers = Len(image_paths)
    /\ Len(image_paths) = 2
    /\ image_paths[1] # image_paths[2]
    /\ fut[1].res # fut[2].res
    /\ result_future = <<2, 1>>

(***************************************************************************)
(* Part 2: the sequential code.  While it is studied no call of            *)
(* process_images_parallel is in progress.                                 *)
(***************************************************************************)
ParallelIdle ==
    /\ image_paths = <<>>
    /\ max_workers = 1
    /\ progress_callback = "None"
    /\ pc = "idle"
    /\ results = <<>>
    /\ total = 0
    /\ completed = 0
    /\ future_to_image = <<>>
    /\ fut = <<>>
    /\ work_queue = <<>>
    /\ num_threads = 0
    /\ idle_semaphore = 0
    /\ releasing = 0
    /\ invoked = <<>>
    /\ installed = FALSE
    /\ finished_set = {}
    /\ waiter = <<>>
    /\ yielded = {}
    /\ result_future = <<>>
    /\ progress_calls = <<>>
    /\ exc = NoExc

(***************************************************************************)
(* llm_client.split_tags, called on every list of at most MaxTags tags.    *)
(***************************************************************************)
MaxTags == 4         \* longest list of tags given to split_tags

\* Strings are sequences of characters.
TagNature == <<"N", "a", "t", "u", "r", "e">>
TagMontagne == <<"M", "o", "n", "t", "a", "g", "n", "e">>
TagCiel == <<"C", "i", "e", "l">>
SansCategorie == <<"S", "a", "n", "s", "-", "c", "a", "t", "e", "g", "o", "r", "i", "e">>

TagNames == {TagNature, TagMontagne, TagCiel}
TagInputs == SeqsUpTo(TagNames, MaxTags)

\* Mutant: the slice of the extra tags starts one element too far.
split_tags_SkipsOne(tags) ==
    IF tags = <<>> THEN <<SansCategorie, <<>>>>
    ELSE <<tags[1], IF Len(tags) > 1 THEN SubSeq(tags, 3, Len(tags)) ELSE <<>>>>

\* llm_client.py:91-97; the pair (first_tag, extra_tags).
split_tags(tags) ==
    IF tags = <<>> THEN <<SansCategorie, <<>>>>
    ELSE <<tags[1], IF Len(tags) > 1 THEN SubSeq(tags, 2, Len(tags)) ELSE <<>>>>

CallSplitTags ==
    /\ \E tags \in TagInputs :
          call' = [fn |-> "split_tags", arg |-> tags, out |-> split_tags(tags)]
    /\ UNCHANGED <<parallel, fs, ret, main>>

PureInit ==
    /\ ParallelIdle
    /\ call = NoCall
    /\ fs = <<>>
    /\ ret = <<>>
    /\ main = <<>>

PureNext ==
    \/ CallSplitTags

PureSpec == PureInit /\ [][PureNext]_vars

\* C16: split_tags of a non-empty list returns its first tag and the list of
\* the following tags in order, so that the first tag followed by the extra
\* tags is the input; of the empty list it returns ("Sans-categorie", []).
C16_SplitTags ==
    call.fn = "split_tags" =>
        IF call.arg = <<>>
        THEN call.out = <<SansCategorie, <<>>>>
        ELSE /\ call.out[1] = Head(call.arg)
             /\ <<call.out[1]>> \o call.out[2] = call.arg

C16_Witness ==
    /\ call.fn = "split_tags"
    /\ call.arg = <<TagNature, TagMontagne, TagCiel, TagMontagne>>
    /\ call.out = <<TagNature, <<TagMontagne, TagCiel, TagMontagne>>>>

(***************************************************************************)
(* Strings are sequences of characters; a path is the sequence of its      *)
(* components, relative to the working directory (pathlib.PurePosixPath).  *)
(***************************************************************************)
\* The printable ASCII characters in the order of their code, from 32 (the
\* grave accent, code 96, by its name).
Ascii == <<
    " ", "!", "\"", "#", "$", "%", "&", "'", "(", ")", "*", "+",
    ",", "-", ".", "/", "0", "1", "2", "3", "4", "5", "6", "7",
    "8", "9", ":", ";", "<", "=", ">", "?", "@", "A", "B", "C",
    "D", "E", "F", "G", "H", "I", "J", "K", "L", "M", "N", "O",
    "P", "Q", "R", "S", "T", "U", "V", "W", "X", "Y", "Z", "[",
    "\\", "]", "^", "_", "grave", "a", "b", "c", "d", "e", "f", "g",
    "h", "i", "j", "k", "l", "m", "n", "o", "p", "q", "r", "s",
    "t", "u", "v", "w", "x", "y", "z", "{", "|", "}", "~" >>

\* ord(c), which str comparison goes by.
Ord(c) == 31 + (CHOOSE i \in DOMAIN Ascii : Ascii[i] = c)

\* str.lower() on one character.
LowerChar(c) == IF Ord(c) >= 65 /\ Ord(c) <= 90 THEN Ascii[Ord(c) + 32 - 31] ELSE c
Lower(s) == [i \in DOMAIN s |-> LowerChar(s[i])]

\* s < t for two str values.
RECURSIVE StrLess(_, _)
StrLess(s, t) ==
    IF t = <<>> THEN FALSE
    ELSE IF s = <<>> THEN TRUE
    ELSE IF Head(s) = Head(t) THEN StrLess(Tail(s), Tail(t))
    ELSE Ord(Head(s)) < Ord(Head(t))

\* str(n) for n >= 0.
Digits == <<"0", "1", "2", "3", "4", "5", "6", "7", "8", "9">>
RECURSIVE IntToStr(_)
IntToStr(n) == IF n < 10 THEN <<Digits[n + 1]>>
               ELSE IntToStr(n \div 10) \o <<Digits[(n % 10) + 1]>>

\* "sep".join(parts)
RECURSIVE JoinStr(_, _)
JoinStr(sep, parts) ==
    IF parts = <<>> THEN <<>>
    ELSE IF Len(parts) = 1 THEN parts[1]
    ELSE parts[1] \o sep \o JoinStr(sep, Tail(parts))

\* What \s matches (among the characters used) and str.strip() removes.
Whitespace == {" ", "\t", "\n"}

Least(S) == CHOOSE i \in S : \A j \in S : i <= j
Greatest(S) == CHOOSE i \in S : \A j \in S : i >= j

\* The positions of s that hold something else than whitespace.
Solid(s) == {i \in 1..Len(s) : s[i] \notin Whitespace}

LStrip(s) == IF Solid(s) = {} THEN <<>> ELSE SubSeq(s, Least(Solid(s)), Len(s))
RStrip(s) == IF Solid(s) = {} THEN <<>> ELSE SubSeq(s, 1, Greatest(Solid(s)))
Strip(s) == RStrip(LStrip(s))

(***************************************************************************)
(* file_operations.sanitize_filename                                       *)
(***************************************************************************)
ForbiddenChars == {"<", ">", ":", "\"", "/", "\\", "|", "?", "*"}

\* Line 20: each forbidden character becomes an underscore.
ReplaceForbidden(s) == [i \in DOMAIN s |-> IF s[i] \in ForbiddenChars THEN "_" ELSE s[i]]

\* Line 22: each run of whitespace becomes one space.
\* Of a run only its first position is kept, and holds a space.
CollapseSpaces(s) ==
    LET kept == SelectSeq([i \in 1..Len(s) |-> i],
                          LAMBDA i : s[i] \notin Whitespace \/ i = 1 \/ s[i - 1] \notin Whitespace)
    IN  [k \in 1..Len(kept) |-> IF s[kept[k]] \in Whitespace THEN " " ELSE s[kept[k]]]

max_length == 200

sanitize_filename(name) ==
    LET sanitized == Strip(CollapseSpaces(ReplaceForbidden(name)))
    IN  IF Len(sanitized) > max_length THEN SubSeq(sanitized, 1, max_length)
        ELSE sanitized

(***************************************************************************)
(* pathlib: name, suffix, stem, parent and the / operator.                 *)
(***************************************************************************)
\* s.rfind(c), counted from 1; 0 when c is not in s.
RFind(s, c) ==
    LET at == {i \in 1..Len(s) : s[i] = c}
    IN  IF at = {} THEN 0 ELSE Greatest(at)

PathName(p) == IF p = <<>> THEN <<>> ELSE p[Len(p)]
PathParent(p) == IF p = <<>> THEN <<>> ELSE SubSeq(p, 1, Len(p) - 1)

NameSuffix(name) ==
    LET i == RFind(name, ".")
    IN  IF 1 < i /\ i < Len(name) THEN SubSeq(name, i, Len(name)) ELSE <<>>

NameStem(name) ==
    LET i == RFind(name, ".")
    IN  IF 1 < i /\ i < Len(name) THEN SubSeq(name, 1, i - 1) ELSE name

\* path / name, for a name without "/": "" and "." add no component.
PathJoin(p, name) == IF name = <<>> \/ name = <<".">> THEN p ELSE Append(p, name)

(***************************************************************************)
(* file_operations.build_new_filename                                      *)
(***************************************************************************)
max_tags_in_filename == 5

build_new_filename(original_path, extra_tags) ==
    LET original_name == NameStem(PathName(original_path))
        extension == NameSuffix(PathName(original_path))
        tags_to_use == SubSeq(extra_tags, 1,
                              IF Len(extra_tags) < max_tags_in_filename
                              THEN Len(extra_tags) ELSE max_tags_in_filename)
        cleaned_tags == [i \in DOMAIN tags_to_use |-> sanitize_filename(tags_to_use[i])]
        new_name == IF cleaned_tags # <<>>
                    THEN original_name \o <<"_">> \o JoinStr(<<"_">>, cleaned_tags) \o extension
                    ELSE original_name \o extension
    IN  sanitize_filename(new_name)

(***************************************************************************)
(* The file system: fs maps each existing path, resolved from the working  *)
(* directory, to its node.  The working directory itself always exists.    *)
(***************************************************************************)
\* A file has its content and, once tagged, the ImageDescription written in
\* its metadata.
FileNode(data) == [kind |-> "file", data |-> data, description |-> <<>>]
DirNode == [kind |-> "dir", data |-> "", description |-> <<>>]
Missing == [kind |-> "missing", data |-> "", description |-> <<>>]

\* The path with its ".." components followed.
RECURSIVE Resolve(_)
Resolve(p) ==
    IF p = <<>> THEN <<>>
    ELSE LET r == Resolve(PathParent(p))
         IN  IF PathName(p) = <<".", ".">> THEN PathParent(r) ELSE Append(r, PathName(p))

\* What the path leads to: every component but the last must be a directory.
RECURSIVE NodeAt(_, _)
NodeAt(f, p) ==
    IF p = <<>> THEN DirNode
    ELSE IF NodeAt(f, PathParent(p)).kind # "dir" THEN Missing
    ELSE LET r == Resolve(p)
         IN  IF r = <<>> THEN DirNode
             ELSE IF r \in DOMAIN f THEN f[r] ELSE Missing

PathExists(f, p) == NodeAt(f, p).kind # "missing"
PathIsDir(f, p) == NodeAt(f, p).kind = "dir"
PathIsFile(f, p) == NodeAt(f, p).kind = "file"

IsPrefix(p, q) == Len(p) <= Len(q) /\ SubSeq(q, 1, Len(p)) = p

\* Path.mkdir(parents=True, exist_ok=True): the missing directories are
\* created from the top; a file in the way makes it raise.
RECURSIVE MkdirParents(_, _)
MkdirParents(f, p) ==
    IF p = <<>> THEN [ok |-> TRUE, fs |-> f]
    ELSE LET up == MkdirParents(f, PathParent(p))
         IN  IF ~up.ok THEN up
             ELSE LET node == NodeAt(up.fs, p)
                  IN  IF node.kind = "dir" THEN up
                      ELSE IF node.kind = "file" THEN [ok |-> FALSE, fs |-> up.fs]
                      ELSE [ok |-> TRUE, fs |-> up.fs @@ (Resolve(p) :> DirNode)]

\* shutil.copy2(src, dst) for a dst that does not exist in an existing
\* directory.
Copy2(f, src, dst) ==
    LET node == NodeAt(f, src)
    IN  IF node.kind = "missing" THEN [raised |-> "FileNotFoundError", fs |-> f]
        ELSE IF node.kind = "dir" THEN [raised |-> "IsADirectoryError", fs |-> f]
        ELSE [raised |-> "", fs |-> (Resolve(dst) :> node) @@ f]

\* Mutant: the file is copied to dst and the source is not removed.
Move_KeepsSource(f, src, dst) ==
    LET node == NodeAt(f, src)
    IN  IF node.kind = "missing" THEN [raised |-> "FileNotFoundError", fs |-> f]
        ELSE [raised |-> "", fs |-> (Resolve(dst) :> node) @@ f]

\* shutil.move(src, dst) for a dst that does not exist in an existing
\* directory: a rename of the file, or of the directory with all it holds.
Move(f, src, dst) ==
    LET node == NodeAt(f, src)
        rs == Resolve(src)
        rd == Resolve(dst)
        moved == {q \in DOMAIN f : IsPrefix(rs, q)}
        NewPath(q) == rd \o SubSeq(q, Len(rs) + 1, Len(q))
    IN  IF node.kind = "missing" THEN [raised |-> "FileNotFoundError", fs |-> f]
        ELSE IF rs = <<>> \/ IsPrefix(rs, rd) THEN [raised |-> "Error", fs |-> f]
        ELSE [raised |-> "",
              fs |-> [q \in (DOMAIN f \ moved) \cup {NewPath(m) : m \in moved} |->
                         IF q \in {NewPath(m) : m \in moved}
                         THEN f[CHOOSE m \in moved : NewPath(m) = q]
                         ELSE f[q]]]

(***************************************************************************)
(* file_operations.organize_image                                          *)
(***************************************************************************)
\* Mutant: the existence of the destination is not looked at.
FreeDestination_NoCheck(f, dest_path) == dest_path

\* Lines 101-108: the first of dest_path, stem_1, stem_2, ... that does not
\* exist.
RECURSIVE NextFree(_, _, _, _, _)
NextFree(f, category_dir, stem, suffix, counter) ==
    LET candidate == PathJoin(category_dir, stem \o <<"_">> \o IntToStr(counter) \o suffix)
    IN  IF PathExists(f, candidate)
        THEN NextFree(f, category_dir, stem, suffix, counter + 1)
        ELSE candidate

FreeDestination(f, dest_path) ==
    IF PathExists(f, dest_path)
    THEN NextFree(f, PathParent(dest_path), NameStem(PathName(dest_path)),
                  NameSuffix(PathName(dest_path)), 1)
    ELSE dest_path

\* The outcome of organize_image: the exception raised ("" when it returns),
\* the path returned and the file system it leaves.
organize_image(f, source_path, first_tag, extra_tags, output_dir, move) ==
    LET category_dir == PathJoin(output_dir, sanitize_filename(first_tag))
        made == MkdirParents(f, category_dir)
        new_filename == build_new_filename(source_path, extra_tags)
        dest_path == FreeDestination(made.fs, PathJoin(category_dir, new_filename))
        done == IF move THEN Move(made.fs, source_path, dest_path)
                ELSE Copy2(made.fs, source_path, dest_path)
    IN  IF ~made.ok THEN [raised |-> "OSError", value |-> <<>>, fs |-> made.fs]
        ELSE IF done.raised # "" THEN [raised |-> done.raised, value |-> <<>>, fs |-> done.fs]
        ELSE [raised |-> "", value |-> dest_path, fs |-> done.fs]

(***************************************************************************)
(* image_scanner.scan_images                                               *)
(***************************************************************************)
IMAGE_EXTENSIONS ==
    { <<".", "j", "p", "g">>, <<".", "j", "p", "e", "g">>, <<".", "p", "n", "g">>,
      <<".", "g", "i", "f">>, <<".", "b", "m", "p">>, <<".", "w", "e", "b", "p">>,
      <<".", "t", "i", "f", "f">>, <<".", "t", "i", "f">> }

\* Paths compare component by component, as their tuples of parts do.
RECURSIVE PathLess(_, _)
PathLess(p, q) ==
    IF q = <<>> THEN FALSE
    ELSE IF p = <<>> THEN TRUE
    ELSE IF Head(p) = Head(q) THEN PathLess(Tail(p), Tail(q))
    ELSE StrLess(Head(p), Head(q))

\* sorted(images)
RECURSIVE Sorted(_)
Sorted(S) ==
    IF S = {} THEN <<>>
    ELSE LET least == CHOOSE x \in S : \A y \in S \ {x} : PathLess(x, y)
         IN  <<least>> \o Sorted(S \ {least})

\* Mutant: the suffix is compared as it is written.
HasImageSuffix_CaseSensitive(name) == NameSuffix(name) \in IMAGE_EXTENSIONS

\* Line 30: file_path.suffix.lower() in IMAGE_EXTENSIONS
HasImageSuffix(name) == Lower(NameSuffix(name)) \in IMAGE_EXTENSIONS

\* Line 29: dir_path.rglob('*') yields everything below the directory, each
\* as the directory's path extended by the relative path.
RGlob(f, directory) ==
    LET rd == Resolve(directory)
    IN  {directory \o SubSeq(q, Len(rd) + 1, Len(q)) :
             q \in {x \in DOMAIN f : IsPrefix(rd, x) /\ x # rd}}

\* The outcome of scan_images: the exception raised ("" when it returns) and
\* the list returned.
scan_images(f, directory) ==
    IF ~PathExists(f, directory) THEN [raised |-> "FileNotFoundError", value |-> <<>>]
    ELSE IF ~PathIsDir(f, directory) THEN [raised |-> "NotADirectoryError", value |-> <<>>]
    ELSE [raised |-> "",
          value |-> Sorted({p \in RGlob(f, directory) :
                                PathIsFile(f, p) /\ HasImageSuffix(PathName(p))})]

(***************************************************************************)
(* Calls of scan_images and organize_image on a small directory tree.      *)
(***************************************************************************)
MaxCalls == 2

InputDir == << <<"i", "n">> >>
SubDir == Append(InputDir, <<"s", "u", "b">>)
OutputDir == << <<"w">>, <<"o", "u", "t">> >>
PlainFile == << <<"f">> >>
NameAJpg == <<"a", ".", "j", "p", "g">>

\* Always there: in/, in/a.jpg, in/sub/ and the plain file f.
BaseTree ==
    (InputDir :> DirNode) @@ (Append(InputDir, NameAJpg) :> FileNode("A")) @@
    (SubDir :> DirNode) @@ (PlainFile :> FileNode("F"))

\* There or not: in/sub/a.jpg; and together in/B.JPG, the text file
\* in/c.txt, the directory in/d.png and the hidden file in/.jpg.
OptionalTrees ==
    { (Append(SubDir, NameAJpg) :> FileNode("B")),
      (Append(InputDir, <<"B", ".", "J", "P", "G">>) :> FileNode("C")) @@
      (Append(InputDir, <<"c", ".", "t", "x", "t">>) :> FileNode("D")) @@
      (Append(InputDir, <<"d", ".", "p", "n", "g">>) :> DirNode) @@
      (Append(InputDir, <<".", "j", "p", "g">>) :> FileNode("E")) }

RECURSIVE Union(_)
Union(trees) ==
    IF trees = {} THEN BaseTree
    ELSE LET t == CHOOSE x \in trees : TRUE IN t @@ Union(trees \ {t})

InitialTrees == {Union(trees) : trees \in SUBSET OptionalTrees}

Sources == {Append(InputDir, NameAJpg), Append(SubDir, NameAJpg), SubDir}
FirstTags == {TagNature, <<".", ".">>, <<" ">>}
ExtraTags == {<<>>, << <<"x">> >>}
Directories == {InputDir, OutputDir, PlainFile, <<>>}

NoArgs ==
    [source_path |-> <<>>, first_tag |-> <<>>, extra_tags |-> <<>>,
     output_dir |-> <<>>, move |-> FALSE, directory |-> <<>>]

Outcome(op, n, a, raised, value, before, created, first) ==
    [op |-> op, n |-> n, args |-> a, raised |-> raised, value |-> value,
     before |-> before, created |-> created, init |-> first]

FsInit ==
    /\ ParallelIdle
    /\ call = NoCall
    /\ main = <<>>
    /\ fs \in InitialTrees
    /\ ret = Outcome("none", 0, NoArgs, "", <<>>, fs, <<>>, fs)

\* One call organize_image(source_path, first_tag, extra_tags, output_dir, move).
OrganizeImage ==
    /\ ret.n < MaxCalls
    /\ \E source_path \in Sources, first_tag \in FirstTags,
          extra_tags \in ExtraTags, move \in BOOLEAN :
          LET out == organize_image(fs, source_path, first_tag, extra_tags, OutputDir, move)
              a == [NoArgs EXCEPT !.source_path = source_path, !.first_tag = first_tag,
                                  !.extra_tags = extra_tags, !.output_dir = OutputDir,
                                  !.move = move]
              created == IF out.raised # "" THEN ret.created
                         ELSE Append(ret.created,
                                     [dir |-> Resolve(PathParent(out.value)),
                                      dest |-> Resolve(out.value), move |-> move])
          IN  /\ fs' = out.fs
              /\ ret' = Outcome("organize_image", ret.n + 1, a, out.raised, out.value,
                                fs, created, ret.init)
    /\ UNCHANGED <<parallel, call, main>>

\* One call scan_images(directory).
ScanImages ==
    /\ ret.n < MaxCalls
    /\ \E directory \in Directories :
          LET out == scan_images(fs, directory)
          IN  ret' = Outcome("scan_images", ret.n + 1, [NoArgs EXCEPT !.directory = directory],
                             out.raised, out.value, fs, ret.created, ret.init)
    /\ UNCHANGED <<parallel, call, main, fs>>

FsNext ==
    \/ OrganizeImage
    \/ ScanImages

FsSpec == FsInit /\ [][FsNext]_vars

\* C18: scan_images raises FileNotFoundError exactly when the path does not
\* exist and NotADirectoryError exactly when it exists but is not a
\* directory, returning no list in either case; otherwise it returns, in
\* increasing order and without repetition, exactly the files below the
\* directory whose lower-cased suffix is in IMAGE_EXTENSIONS.
C18_ScanImages ==
    ret.op = "scan_images" =>
        LET d == ret.args.directory
            f == ret.before
            listed == ret.value
        IN  /\ ret.raised = "FileNotFoundError" <=> ~PathExists(f, d)
            /\ ret.raised = "NotADirectoryError" <=> PathExists(f, d) /\ ~PathIsDir(f, d)
            /\ ret.raised # "" => listed = <<>>
            /\ PathIsDir(f, d) =>
                  /\ ret.raised = ""
                  /\ \A i, j \in 1..Len(listed) : i < j => PathLess(listed[i], listed[j])
                  /\ \A i \in 1..Len(listed) :
                        /\ IsPrefix(d, listed[i])
                        /\ Len(listed[i]) > Len(d)
                        /\ PathIsFile(f, listed[i])
                        /\ Lower(NameSuffix(PathName(listed[i]))) \in IMAGE_EXTENSIONS
                  /\ \A q \in DOMAIN f :
                        (/\ f[q].kind = "file"
                         /\ IsPrefix(Resolve(d), q)
                         /\ Lower(NameSuffix(PathName(q))) \in IMAGE_EXTENSIONS)
                        => \E i \in 1..Len(listed) : Resolve(listed[i]) = q

\* A scan of in/ that lists the upper-case B.JPG, then a.jpg, then sub/a.jpg,
\* and leaves out c.txt, the directory d.png and the hidden file .jpg.
C18_Witness ==
    /\ ret.op = "scan_images"
    /\ ret.raised = ""
    /\ ret.args.directory = InputDir
    /\ Len(ret.value) = 3
    /\ PathName(ret.value[1]) = <<"B", ".", "J", "P", "G">>
    /\ ret.value[3] = Append(SubDir, NameAJpg)
    /\ Append(InputDir, <<"d", ".", "p", "n", "g">>) \in DOMAIN ret.before

\* The plain files directly inside the directory.
FilesIn(f, dir) ==
    {q \in DOMAIN f : f[q].kind = "file" /\ Len(q) = Len(dir) + 1 /\ IsPrefix(dir, q)}

\* The calls of organize_image that returned, by position in ret.created.
CreatedIn(dir) == {i \in 1..Len(ret.created) : ret.created[i].dir = dir}

\* C19: organize_image never overwrites an existing file.  The path it
\* returns did not exist before the call and holds the file after it, and
\* every file that existed before is still there with its content (in move
\* mode, all but the source).  Hence, as long as every call was in copy mode,
\* each category directory holds what it held at first plus one distinct file
\* per call that returned for it.
C19_NeverOverwrites ==
    /\ (ret.op = "organize_image" /\ ret.raised = "") =>
          /\ ~PathExists(ret.before, ret.value)
          /\ PathExists(fs, ret.value)
          /\ \A q \in DOMAIN ret.before :
                (/\ ret.before[q].kind = "file"
                 /\ ret.args.move => ~IsPrefix(Resolve(ret.args.source_path), q))
                => (q \in DOMAIN fs /\ fs[q] = ret.before[q])
    /\ (\A i \in 1..Len(ret.created) : ~ret.created[i].move) =>
          \A dir \in {ret.created[i].dir : i \in 1..Len(ret.created)} :
              /\ FilesIn(fs, dir) =
                     FilesIn(ret.init, dir) \cup {ret.created[i].dest : i \in CreatedIn(dir)}
              /\ FilesIn(ret.init, dir) \cap {ret.created[i].dest : i \in CreatedIn(dir)} = {}
              /\ Cardinality({ret.created[i].dest : i \in CreatedIn(dir)}) =
                     Cardinality(CreatedIn(dir))

\* Two copies, of in/a.jpg and of in/sub/a.jpg, into the same category: both
\* would be named a.jpg, the second one is stored as a_1.jpg beside the first.
C19_Witness ==
    /\ ret.op = "organize_image"
    /\ ret.raised = ""
    /\ Len(ret.created) = 2
    /\ ~ret.created[1].move /\ ~ret.created[2].move
    /\ ret.created[1].dir = ret.created[2].dir
    /\ ret.created[1].dest = Append(Append(OutputDir, TagNature), NameAJpg)
    /\ PathName(ret.value) = <<"a", "_", "1", ".", "j", "p", "g">>
    /\ ret.args.source_path = Append(SubDir, NameAJpg)
    /\ Cardinality(FilesIn(fs, ret.created[1].dir)) = 2

\* C20: the file organize_image stores lies directly inside the category
\* folder output_dir/<sanitize_filename(first_tag)>, and that folder is a
\* direct subdirectory of output_dir: never output_dir itself, never a
\* directory outside output_dir.
C20_DestInCategoryFolder ==
    (ret.op = "organize_image" /\ ret.raised = "") =>
        LET folder == Resolve(PathParent(ret.value))
            out == Resolve(ret.args.output_dir)
        IN  /\ PathParent(ret.value) =
                   PathJoin(ret.args.output_dir, sanitize_filename(ret.args.first_tag))
            /\ folder # out
            /\ IsPrefix(out, folder)
            /\ Len(folder) = Len(out) + 1

(***************************************************************************)
(* exif_tagger.add_tags_to_image                                           *)
(***************************************************************************)
\* Lines 72-86: the tags joined by "; " become the ImageDescription of the
\* file, and True is returned.  When the EXIF libraries are missing or
\* anything raises (saved = FALSE) the file is left as it is and False is
\* returned.
add_tags_to_image(f, image_path, tags, saved) ==
    IF saved /\ PathIsFile(f, image_path)
    THEN [value |-> TRUE,
          fs |-> [f EXCEPT ![Resolve(image_path)].description = JoinStr(<<";", " ">>, tags)]]
    ELSE [value |-> FALSE, fs |-> f]

(***************************************************************************)
(* run.main: scan, tag, then organize and tag the files.                   *)
(***************************************************************************)
GeneratedTags == {<<>>, <<TagNature>>, <<TagNature, <<"x">>>>, << <<"x">> >>}

\* The output directory is missing at first, or holds a plain file named x,
\* where the category x would go.
BlockedCategory ==
    (<< <<"w">> >> :> DirNode) @@ (OutputDir :> DirNode) @@
    (Append(OutputDir, <<"x">>) :> FileNode("X"))
MainTrees == InitialTrees \cup {BlockedCategory @@ tree : tree \in InitialTrees}
MainDirectories == {InputDir, SubDir, PlainFile}

\* What process_images_parallel may hand back for one path: a failure, or a
\* success with the tags generate_tags produced.
OutcomesFor(image_path) ==
    {ImageTagResult(image_path, <<>>, FALSE, "boom")} \cup
    {ImageTagResult(image_path, tags, TRUE, "") : tags \in GeneratedTags}

Orders(n) == {q \in [1..n -> 1..n] : \A i, j \in 1..n : q[i] = q[j] => i = j}

\* Mutant: outcomes without tags are not skipped.
Skipped_Never(result) == FALSE

\* Line 144: if not result.tags
Skipped(result) == result.tags = <<>>

\* Mutant: an error ends the loop.
AfterError_Break(i, n) == n + 1

\* Lines 168-169: the error is reported and the loop goes on with the next
\* result.
AfterError(i, n) == i + 1

MainInit ==
    /\ ParallelIdle
    /\ call = NoCall
    /\ ret = <<>>
    /\ fs \in MainTrees
    /\ \E directory \in MainDirectories, move \in BOOLEAN :
          main = [pc |-> "scan", directory |-> directory, move |-> move,
                  image_paths |-> <<>>, results |-> <<>>, successful_results |-> <<>>,
                  i |-> 1, organized_count |-> 0, tagged_count |-> 0,
                  calls |-> <<>>, before |-> fs]

\* Lines 96-106: scan_images; a missing directory or an empty list ends main.
MainScan ==
    /\ main.pc = "scan"
    /\ LET out == scan_images(fs, main.directory)
       IN  main' = [main EXCEPT !.image_paths = out.value,
                                !.pc = IF out.raised # "" \/ out.value = <<>>
                                       THEN "done" ELSE "process"]
    /\ UNCHANGED <<parallel, call, ret, fs>>

\* Lines 120-129: process_images_parallel returns one outcome per path, in
\* the order the tasks completed, or raises; the outcomes with success are
\* kept for the loop.
MainProcess ==
    /\ main.pc = "process"
    /\ \/ main' = [main EXCEPT !.pc = "raised"]
       \/ LET n == Len(main.image_paths)
          IN  \E order \in Orders(n) :
              \E rs \in [1..n -> UNION {OutcomesFor(main.image_paths[k]) : k \in 1..n}] :
                 /\ \A k \in 1..n : rs[k].image_path = main.image_paths[order[k]]
                 /\ main' = [main EXCEPT !.results = rs,
                                         !.successful_results = SelectSeq(rs, LAMBDA r : r.success),
                                         !.i = 1,
                                         !.pc = "organize"]
    /\ UNCHANGED <<parallel, call, ret, fs>>

\* Lines 143-169: one turn of the loop over successful_results.
MainOrganize ==
    /\ main.pc = "organize"
    /\ main.i <= Len(main.successful_results)
    /\ LET result == main.successful_results[main.i]
           pair == split_tags(result.tags)
           out == organize_image(fs, result.image_path, pair[1], pair[2], OutputDir, main.move)
           organized == [fn |-> "organize_image", result |-> result,
                         path |-> result.image_path, raised |-> out.raised]
       IN  IF Skipped(result)
           THEN /\ main' = [main EXCEPT !.i = @ + 1]
                /\ fs' = fs
           ELSE IF out.raised # ""
           THEN /\ main' = [main EXCEPT !.i = AfterError(@, Len(main.successful_results)),
                                        !.calls = Append(@, organized)]
                /\ fs' = out.fs
           ELSE \E saved \in BOOLEAN :
                   LET tagged == add_tags_to_image(out.fs, out.value, result.tags, saved)
                   IN  /\ fs' = tagged.fs
                       /\ main' = [main EXCEPT
                              !.i = @ + 1,
                              !.organized_count = @ + 1,
                              !.tagged_count = IF tagged.value THEN @ + 1 ELSE @,
                              !.calls = @ \o <<organized,
                                               [fn |-> "add_tags_to_image", result |-> result,
                                                path |-> out.value, raised |-> ""]>>]
    /\ UNCHANGED <<parallel, call, ret>>

\* Lines 171-179: the summary, once the loop is over.
MainSummary ==
    /\ main.pc = "organize"
    /\ main.i > Len(main.successful_results)
    /\ main' = [main EXCEPT !.pc = "done"]
    /\ UNCHANGED <<parallel, call, ret, fs>>

MainNext ==
    \/ MainScan
    \/ MainProcess
    \/ MainOrganize
    \/ MainSummary

MainSpec == MainInit /\ [][MainNext]_vars

\* C17: in the main workflow only outcomes with success and a non-empty tag
\* list are passed to organize_image and add_tags_to_image; an outcome with
\* success false is passed to neither, and its source file stays where it
\* was, with its content and metadata, also in move mode.
C17_OnlySuccessfulOrganized ==
    /\ \A k \in 1..Len(main.calls) :
          /\ main.calls[k].result.success
          /\ main.calls[k].result.tags # <<>>
          /\ \E r \in 1..Len(main.results) : main.results[r] = main.calls[k].result
    /\ \A r \in 1..Len(main.results) :
          ~main.results[r].success =>
              /\ \A k \in 1..Len(main.calls) :
                    /\ main.calls[k].result.image_path # main.results[r].image_path
                    /\ main.calls[k].path # main.results[r].image_path
              /\ Resolve(main.results[r].image_path) \in DOMAIN fs
              /\ fs[Resolve(main.results[r].image_path)] =
                     main.before[Resolve(main.results[r].image_path)]

\* A finished run in move mode over three images: one failed, one tagged
\* with no tags, one moved into its category and given its metadata.
C17_Witness ==
    /\ main.pc = "done"
    /\ main.move
    /\ Len(main.results) = 3
    /\ \E r \in 1..3 : ~main.results[r].success
    /\ \E r \in 1..3 : main.results[r].success /\ main.results[r].tags = <<>>
    /\ Len(main.calls) = 2
    /\ main.calls[1].fn = "organize_image"
    /\ main.calls[2].fn = "add_tags_to_image"
    /\ main.organized_count = 1
    /\ main.tagged_count = 1
    /\ ~PathExists(fs, main.calls[1].path)
    /\ NodeAt(fs, main.calls[2].path).description # <<>>

\* C21: after organize_image returns, the destination exists and holds what
\* the source held; in copy mode the source is still there, unchanged, and
\* in move mode the source no longer exists.
C21_DestinationHoldsSource ==
    (ret.op = "organize_image" /\ ret.raised = "") =>
        /\ PathExists(fs, ret.value)
        /\ NodeAt(fs, ret.value) = NodeAt(ret.before, ret.args.source_path)
        /\ ~ret.args.move =>
              NodeAt(fs, ret.args.source_path) = NodeAt(ret.before, ret.args.source_path)
        /\ ret.args.move => ~PathExists(fs, ret.args.source_path)

\* in/a.jpg moved into the category Nature: the file is there with the
\* content "A" and in/a.jpg is gone.
C21_Witness ==
    /\ ret.op = "organize_image"
    /\ ret.raised = ""
    /\ ret.args.move
    /\ ret.args.source_path = Append(InputDir, NameAJpg)
    /\ ret.args.first_tag = TagNature
    /\ PathIsFile(fs, ret.value)
    /\ NodeAt(fs, ret.value).data = "A"
    /\ Append(InputDir, NameAJpg) \notin DOMAIN fs

(***************************************************************************)
(* llm_client.parse_tags                                                   *)
(***************************************************************************)
Quotes == {"\"", "'"}

\* What \w matches among the ASCII characters.
WordChars == {Ascii[i] : i \in {k \in DOMAIN Ascii :
                 \/ k + 31 >= 48 /\ k + 31 <= 57
                 \/ k + 31 >= 65 /\ k + 31 <= 90
                 \/ k + 31 >= 97 /\ k + 31 <= 122}} \cup {"_"}

\* Line 63: one quote at the start and one at the end are removed.
RemoveQuotes(s) ==
    LET t == IF s # <<>> /\ Head(s) \in Quotes THEN Tail(s) ELSE s
    IN  IF t # <<>> /\ t[Len(t)] \in Quotes THEN SubSeq(t, 1, Len(t) - 1) ELSE t

\* s.split(c)
RECURSIVE SplitOn(_, _)
SplitOn(s, c) ==
    LET at == {i \in 1..Len(s) : s[i] = c}
    IN  IF at = {} THEN <<s>>
        ELSE <<SubSeq(s, 1, Least(at) - 1)>> \o SplitOn(SubSeq(s, Least(at) + 1, Len(s)), c)

\* Line 72: the run at the start and the run at the end of characters that
\* are neither word characters, nor whitespace, nor "-", are removed.
CleanEnds(tag) ==
    LET kept == {i \in 1..Len(tag) : tag[i] \in WordChars \cup Whitespace \cup {"-"}}
    IN  IF kept = {} THEN <<>> ELSE SubSeq(tag, Least(kept), Greatest(kept))

\* Mutant: a tag already collected is collected again.
Accepted_AlsoDuplicates(tag, cleaned_tags) == tag # <<>>

\* Line 75: if tag and tag not in cleaned_tags
Accepted(tag, cleaned_tags) ==
    tag # <<>> /\ \A k \in 1..Len(cleaned_tags) : cleaned_tags[k] # tag

\* Lines 70-76: the loop over the pieces, from the tags collected so far.
RECURSIVE CollectTags(_, _)
CollectTags(tags, cleaned_tags) ==
    IF tags = <<>> THEN cleaned_tags
    ELSE LET tag == Strip(CleanEnds(Head(tags)))
         IN  CollectTags(Tail(tags),
                         IF Accepted(tag, cleaned_tags) THEN Append(cleaned_tags, tag)
                         ELSE cleaned_tags)

parse_tags(raw_tags) ==
    LET cleaned == RemoveQuotes(Strip(raw_tags))
        pieces == SplitOn(cleaned, ",")
        tags == [k \in 1..Len(pieces) |-> Strip(pieces[k])]
    IN  CollectTags(tags, <<>>)

(***************************************************************************)
(* Calls of the text functions: sanitize_filename and build_new_filename   *)
(* on names around the limit of max_length characters.  The functions keep *)
(* no state, so each behaviour makes one call.                             *)
(***************************************************************************)
\* The character repeated n times.
Pad(c, n) == [i \in 1..n |-> c]

NameLengths == {0, 1, max_length - 2, max_length - 1, max_length, max_length + 1}
NamePrefixes == {<<>>, <<" ">>, <<"<">>}
NameSuffixes == {<<>>, <<" ">>, <<" ", "b">>, <<" ", "\t", " ", "b">>, <<".", "j", "p", "g">>}
NameInputs ==
    {before \o Pad("a", n) \o after :
         before \in NamePrefixes, n \in NameLengths, after \in NameSuffixes}

StemLengths == {1, max_length - 5, max_length - 4, max_length - 3, max_length}
Extensions == {<<>>, <<".", "j", "p", "g">>, <<".", "t", "a", "r", ".", "g", "z">>}
OriginalPaths ==
    {Append(InputDir, Pad("a", n) \o ext) : n \in StemLengths, ext \in Extensions}
ExtraTagInputs ==
    {<<>>, << <<"x">> >>, << <<"x", " ", "y">>, <<>> >>, << Pad("x", max_length) >>}

MaxPieces == 3

\* Raw answers: up to MaxPieces pieces joined by commas, between quotes and
\* whitespace or not.
Pieces == {<<>>, <<"a">>, <<" ", "a", " ">>, <<"b">>, <<"!">>, <<".", "b", "!">>,
           <<"\"", "a", "\"">>}
RawWrappers == {<< <<>>, <<>> >>, << <<" ", "\"">>, <<"\"", "\n">> >>,
                << <<"'">>, <<>> >>, << <<>>, <<" ">> >>}
RawInputs ==
    {w[1] \o JoinStr(<<",">>, ps) \o w[2] : ps \in SeqsUpTo(Pieces, MaxPieces), w \in RawWrappers}

TextInit ==
    /\ ParallelIdle
    /\ call = NoCall
    /\ fs = <<>>
    /\ ret = <<>>
    /\ main = <<>>

\* One call sanitize_filename(name).
CallSanitizeFilename ==
    /\ call = NoCall
    /\ \E name \in NameInputs :
          call' = [fn |-> "sanitize_filename", arg |-> name, out |-> sanitize_filename(name)]
    /\ UNCHANGED <<parallel, fs, ret, main>>

\* One call build_new_filename(original_path, extra_tags).
CallBuildNewFilename ==
    /\ call = NoCall
    /\ \E original_path \in OriginalPaths, extra_tags \in ExtraTagInputs :
          call' = [fn |-> "build_new_filename",
                   arg |-> [original_path |-> original_path, extra_tags |-> extra_tags],
                   out |-> build_new_filename(original_path, extra_tags)]
    /\ UNCHANGED <<parallel, fs, ret, main>>

\* One call parse_tags(raw_tags).
CallParseTags ==
    /\ call = NoCall
    /\ \E raw_tags \in RawInputs :
          call' = [fn |-> "parse_tags", arg |-> raw_tags, out |-> parse_tags(raw_tags)]
    /\ UNCHANGED <<parallel, fs, ret, main>>

TextNext ==
    \/ CallSanitizeFilename
    \/ CallBuildNewFilename
    \/ CallParseTags

TextSpec == TextInit /\ [][TextNext]_vars

\* C22: the result of sanitize_filename has no leading and no trailing
\* whitespace, for every input, those longer than max_length included.
C22_SanitizedIsStripped ==
    (call.fn = "sanitize_filename" /\ call.out # <<>>) =>
        /\ Head(call.out) \notin Whitespace
        /\ call.out[Len(call.out)] \notin Whitespace

\* C23: the name returned by build_new_filename ends with the suffix of the
\* original file, also when stem and tags exceed max_length characters.
C23_KeepsExtension ==
    call.fn = "build_new_filename" =>
        LET extension == NameSuffix(PathName(call.arg.original_path))
            n == Len(call.out)
        IN  /\ n >= Len(extension)
            /\ SubSeq(call.out, n - Len(extension) + 1, n) = extension

\* The pieces of the raw answer between the commas, each one cleaned.
CleanedPieces(raw_tags) ==
    LET pieces == SplitOn(RemoveQuotes(Strip(raw_tags)), ",")
    IN  [k \in 1..Len(pieces) |-> Strip(CleanEnds(Strip(pieces[k])))]

\* C24: parse_tags returns a list without an empty tag and without a
\* duplicate; every tag is one of the cleaned pieces of the comma-separated
\* input, every non-empty cleaned piece is in the list, and the tags are in
\* the order of their first occurrence in the input.
C24_ParseTags ==
    call.fn = "parse_tags" =>
        LET out == call.out
            cand == CleanedPieces(call.arg)
            First(t) == Least({k \in 1..Len(cand) : cand[k] = t})
        IN  /\ \A i \in 1..Len(out) : out[i] # <<>>
            /\ \A i, j \in 1..Len(out) : i # j => out[i] # out[j]
            /\ \A i \in 1..Len(out) : \E k \in 1..Len(cand) : cand[k] = out[i]
            /\ \A k \in 1..Len(cand) : cand[k] # <<>> => \E i \in 1..Len(out) : out[i] = cand[k]
            /\ \A i, j \in 1..Len(out) : i < j => First(out[i]) < First(out[j])

\* The answer .b!,a,b gives the tags b and a: the second b is dropped.
C24_Witness ==
    /\ call.fn = "parse_tags"
    /\ call.arg = <<".", "b", "!", ",", "a", ",", "b">>
    /\ call.out = << <<"b">>, <<"a">> >>

(***************************************************************************)
(* exif_tagger.read_tags_from_image, and calls of the two metadata         *)
(* functions on the image in/a.jpg.                                        *)
(***************************************************************************)
\* Lines 107-119: the ImageDescription is split at each ";", the pieces are
\* stripped and the empty ones dropped; a file that cannot be read gives [].
read_tags_from_image(f, image_path) ==
    IF ~PathIsFile(f, image_path) THEN <<>>
    ELSE LET pieces == SplitOn(NodeAt(f, image_path).description, ";")
             stripped == [k \in 1..Len(pieces) |-> Strip(pieces[k])]
         IN  SelectSeq(stripped, LAMBDA tag : tag # <<>>)

MaxExifTags == 2

ExifTags == {<<"a">>, <<"b">>, TagNature, <<"a", ";", "b">>, <<" ", "a">>}
ExifTagLists == SeqsUpTo(ExifTags, MaxExifTags)

\* op and n: the last call and the number of calls; tags: the list given to
\* the last add_tags_to_image that returned True (written); value: what the
\* last call returned.
ExifInit ==
    /\ ParallelIdle
    /\ call = NoCall
    /\ main = <<>>
    /\ fs = BaseTree
    /\ ret = [op |-> "none", n |-> 0, tags |-> <<>>, written |-> FALSE, value |-> <<>>]

\* One call add_tags_to_image(in/a.jpg, tags).
AddTagsToImage ==
    /\ ret.n < MaxCalls
    /\ \E tags \in ExifTagLists, saved \in BOOLEAN :
          LET out == add_tags_to_image(fs, Append(InputDir, NameAJpg), tags, saved)
          IN  /\ fs' = out.fs
              /\ ret' = [op |-> "add_tags_to_image", n |-> ret.n + 1,
                         tags |-> IF out.value THEN tags ELSE ret.tags,
                         written |-> ret.written \/ out.value,
                         value |-> <<out.value>>]
    /\ UNCHANGED <<parallel, call, main>>

\* One call read_tags_from_image(in/a.jpg).
ReadTagsFromImage ==
    /\ ret.n < MaxCalls
    /\ ret' = [ret EXCEPT !.op = "read_tags_from_image", !.n = @ + 1,
                          !.value = read_tags_from_image(fs, Append(InputDir, NameAJpg))]
    /\ UNCHANGED <<parallel, call, main, fs>>

ExifNext ==
    \/ AddTagsToImage
    \/ ReadTagsFromImage

ExifSpec == ExifInit /\ [][ExifNext]_vars

\* C25: once add_tags_to_image(p, tags) has returned True, what
\* read_tags_from_image(p) returns has the length of the tags given to the
\* last such call and contains each of them.
C25_RoundTrip ==
    (ret.op = "read_tags_from_image" /\ ret.written) =>
        /\ Len(ret.value) = Len(ret.tags)
        /\ \A k \in 1..Len(ret.tags) : \E i \in 1..Len(ret.value) : ret.value[i] = ret.tags[k]

(***************************************************************************)
(* Further properties of process_images_parallel.                          *)
(***************************************************************************)
\* C26: whenever the progress callback is invoked, the count it receives is
\* the number of outcomes in results at that moment, the outcome of the
\* reported task included: that outcome was appended in the same turn of the
\* loop, before the callback.
C26_CountIsRecorded ==
    [][progress_calls' # progress_calls =>
          /\ Len(progress_calls') = Len(progress_calls) + 1
          /\ Len(results') = Len(results) + 1
          /\ result_future' = Append(result_future, result_future'[Len(result_future')])
          /\ progress_calls'[Len(progress_calls')][1] = Len(results')]_vars

\* Two reports have been made, the first one for a task that failed.
C26_Witness ==
    /\ progress_callback = "callable"
    /\ Len(progress_calls) = 2
    /\ Len(results) = 2
    /\ ~results[1].success
    /\ results[2].success

\* The place of the future's outcome in the list.
Pos(i) == CHOOSE n \in DOMAIN result_future : result_future[n] = i

\* Task a has finished and task b has not: a finishes before b.
FinishedFirst(a, b) == a \in Done /\ b \in Tasks \ Done
\* A call that returns has recorded every task (C1).
InOrder(a, b) ==
    (ReturnedNormally /\ a \in Range(result_future) /\ b \in Range(result_future)) =>
        Pos(a) < Pos(b)
AfterFinish == \A n \in DOMAIN result_future : fut[result_future[n]].state = "finished"

C28_AppendOnly ==
    [][/\ results' # results =>
             /\ pc = "collect"
             /\ SubSeq(results', 1, Len(results)) = results
             /\ Len(results') = Len(results) + 1
             /\ fut' = fut
             /\ \E f \in Tasks \ yielded :
                   /\ fut[f].state = "finished"
                   /\ yielded' = yielded \cup {f}
                   /\ result_future' = Append(result_future, f)
                   /\ results'[Len(results')].image_path = future_to_image[f]
       /\ \A i \in Tasks : Occurrences(result_future', i) <= 1]_vars

\* A call with one worker and no callback returned a success followed by a
\* failure.
C28_Witness ==
    /\ ReturnedNormally
    /\ max_workers = 1
    /\ progress_callback = "None"
    /\ Len(results) = 2
    /\ results[1].success
    /\ ~results[2].success

\* C29: once the progress callback has raised, on its i-th invocation,
\* nothing more is collected or reported and the call cannot return; it
\* raises the callback's error, with the i outcomes recorded so far never
\* returned, and does so only when every submitted task has been called once
\* and has finished, collected or not.
C29_CallbackErrorPropagates ==
    [][/\ (pc \in {"unwind", "raised"} /\ exc.src = "callback") =>
             /\ pc' \in {"unwind", "raised"}
             /\ UNCHANGED <<results, progress_calls, yielded, exc>>
       /\ (pc' = "raised" /\ exc'.src = "callback") =>
             /\ exc' = CallbackError
             /\ Len(future_to_image') = Len(image_paths')
             /\ \A i \in 1..Len(image_paths') : fut'[i].state = "finished" /\ invoked'[i] = 1
             /\ Len(progress_calls') = Len(results')
             /\ Cardinality(yielded') = Len(results')]_vars

\* With one worker the callback raised at its first invocation: the call
\* raised after the second task, never collected, had run and finished.
C29_Witness ==
    /\ pc = "raised"
    /\ exc = CallbackError
    /\ max_workers = 1
    /\ Len(image_paths) = 2
    /\ Len(progress_calls) = 1
    /\ Len(results) = 1
    /\ yielded = {1}
    /\ fut[2].state = "finished"
    /\ invoked[2] = 1

\* The calls of organize_image made so far, by position in main.calls.
OrganizeCalls == {k \in 1..Len(main.calls) : main.calls[k].fn = "organize_image"}

\* C30: tagged_count <= organized_count <= number of successful outcomes <=
\* number of scanned images in every state, organized_count being the number
\* of organize_image calls that returned; and when main is over, every
\* successful outcome with tags has been passed to organize_image, whatever
\* errors the calls before it raised.
C30_ErrorsDoNotStopTheLoop ==
    /\ main.tagged_count <= main.organized_count
    /\ main.organized_count <= Len(main.successful_results)
    /\ Len(main.successful_results) <= Len(main.image_paths)
    /\ Len(main.successful_results) =
           Cardinality({r \in 1..Len(main.results) : main.results[r].success})
    /\ main.organized_count = Cardinality({k \in OrganizeCalls : main.calls[k].raised = ""})
    /\ main.pc = "done" =>
          \A r \in 1..Len(main.results) :
              (main.results[r].success /\ main.results[r].tags # <<>>) =>
                  \E k \in OrganizeCalls : main.calls[k].result = main.results[r]

\* Of three images, one failed at tagging; organizing the next raised, the
\* category x being a plain file; the last one was then organized, and its
\* metadata could not be written.
C30_Witness ==
    /\ main.pc = "done"
    /\ Len(main.image_paths) = 3
    /\ Len(main.successful_results) = 2
    /\ Len(main.calls) = 3
    /\ main.calls[1].fn = "organize_image"
    /\ main.calls[1].raised # ""
    /\ main.calls[2].fn = "organize_image"
    /\ main.calls[2].raised = ""
    /\ main.organized_count = 1
    /\ main.tagged_count = 0

====
